---------------------------- MODULE Spec2Model ----------------------------
(***************************************************************************)
(* Model of src/supabase_mcp_connector.py: the two tools search and fetch, *)
(* the SupabaseConnector methods they forward to, the request each one     *)
(* builds and the result each one returns for every outcome of its single  *)
(* requests.get call.                                                      *)
(*                                                                         *)
(* Strings.  A Python str is a sequence of tokens.  Every character that   *)
(* means something to str.split('=') or to the filter syntax (= , ( ) % .) *)
(* is a token of its own; a run of other characters ("title", "ilike",     *)
(* "42") is one token.  The empty str is << >>.                            *)
(*                                                                         *)
(* Values.  A JSON / Python value is a record tagged by t:                 *)
(*   [t |-> "null"]            None                                        *)
(*   [t |-> "num", n |-> 42]   an int                                      *)
(*   [t |-> "str", s |-> ..]   a str (token sequence)                      *)
(*   [t |-> "arr", a |-> ..]   a list (sequence of values)                 *)
(*   [t |-> "obj", o |-> ..]   a dict (function from key names to values)  *)
(***************************************************************************)
EXTENDS Integers, Sequences, FiniteSets, TLC

\* ------------------------------------------------------------------ bounds
\* Longest query, in tokens.
MaxLen == 2
\* Longest JSON array the backing API answers with.
MaxRows == 2
\* Number of tool invocations, which may overlap in any way or follow one
\* another.
NumCalls == 2

\* ----------------------------------------------------------- configuration
SUPABASE_URL == <<"https://db.example">>
SUPABASE_ANON_KEY == <<"anon-key">>
SUPABASE_TABLE == "documents"
SEARCH_COLUMNS == <<"title", "content">>
ID_COLUMN == "id"
TITLE_COLUMN == "title"
CONTENT_COLUMN == "content"
REQUEST_TIMEOUT == 30

\* ------------------------------------------------------------------ values
PyNone == [t |-> "null"]
PyNum(n) == [t |-> "num", n |-> n]
PyStr(s) == [t |-> "str", s |-> s]
PyArr(a) == [t |-> "arr", a |-> a]
PyObj(o) == [t |-> "obj", o |-> o]

\* str(x), as line 81 and line 121 apply it to an id-column value.
str(x) ==
  CASE x.t = "str" -> x.s
    [] x.t = "num" -> <<ToString(x.n)>>
    [] x.t = "null" -> <<"None">>
    [] x.t = "arr" -> <<"[..]">>
    [] x.t = "obj" -> <<"{..}">>

\* bool(x): what "not results" on line 111 tests.
Truthy(x) ==
  CASE x.t = "null" -> FALSE
    [] x.t = "num" -> x.n # 0
    [] x.t = "str" -> x.s # << >>
    [] x.t = "arr" -> x.a # << >>
    [] x.t = "obj" -> DOMAIN x.o # {}

\* An evaluation either yields a value or raises an exception of some class.
Ok(v) == [ok |-> TRUE, v |-> v]
Raise(cls, msg) == [ok |-> FALSE, cls |-> cls, msg |-> msg]

\* x[0], as line 119 applies it to the parsed body.
Index0(x) ==
  CASE x.t = "arr" -> IF x.a = << >> THEN Raise("IndexError", <<"list index out of range">>)
                      ELSE Ok(x.a[1])
    [] x.t = "str" -> IF x.s = << >> THEN Raise("IndexError", <<"string index out of range">>)
                      ELSE Ok(PyStr(<<x.s[1]>>))
    [] x.t = "obj" -> Raise("KeyError", <<"0">>)
    [] OTHER -> Raise("TypeError", <<"object is not subscriptable">>)

\* x[key] for a str key, as lines 81 and 121 apply it to a row.
GetItem(x, key) ==
  CASE x.t = "obj" -> IF key \in DOMAIN x.o THEN Ok(x.o[key])
                      ELSE Raise("KeyError", <<"'", key, "'">>)
    [] x.t = "arr" -> Raise("TypeError", <<"list indices must be integers or slices, not str">>)
    [] x.t = "str" -> Raise("TypeError", <<"string indices must be integers">>)
    [] OTHER -> Raise("TypeError", <<"object is not subscriptable">>)

\* x.get(key, default), as lines 122-123 apply it to a row: the default is
\* used only when the key is absent; a key present with null yields None.
DictGet(x, key, default) ==
  IF x.t = "obj"
  THEN Ok(IF key \in DOMAIN x.o THEN x.o[key] ELSE default)
  ELSE Raise("AttributeError", <<"object has no attribute 'get'">>)

\* iter(x): the elements "for doc in results" on line 81 visits.
Iterate(x) ==
  CASE x.t = "arr" -> Ok(x.a)
    [] x.t = "str" -> Ok([i \in 1..Len(x.s) |-> PyStr(<<x.s[i]>>)])
    [] x.t = "obj" -> LET keys == DOMAIN x.o
                          order == CHOOSE f \in [1..Cardinality(keys) -> keys] :
                                     \A i, j \in 1..Cardinality(keys) : i # j => f[i] # f[j]
                      IN Ok([i \in 1..Cardinality(keys) |-> PyStr(<<order[i]>>)])
    [] OTHER -> Raise("TypeError", <<"object is not iterable">>)

\* ----------------------------------------------------------------- strings
\* sep.join(parts), as line 63 joins the per-column conditions.
RECURSIVE Join(_, _)
Join(parts, sep) ==
  IF parts = << >> THEN << >>
  ELSE IF Len(parts) = 1 THEN parts[1]
  ELSE parts[1] \o <<sep>> \o Join(Tail(parts), sep)

\* s.split(sep): the pieces of s between the occurrences of sep, in order
\* (line 69 splits filter_param at every '=').
RECURSIVE Split(_, _)
Split(s, sep) ==
  IF \A i \in 1..Len(s) : s[i] # sep THEN <<s>>
  ELSE LET k == CHOOSE i \in 1..Len(s) : s[i] = sep /\ \A j \in 1..(i - 1) : s[j] # sep
       IN <<SubSeq(s, 1, k - 1)>> \o Split(SubSeq(s, k + 1, Len(s)), sep)

\* A dict display {k1: v1, k2: v2}: a later key replaces an equal earlier one.
DictOf(k1, v1, k2, v2) == (k2 :> v2) @@ (k1 :> v1)

\* -------------------------------------------------------- request building
\* Line 60: one condition per search column.
OrCondition(column, query) == <<column, ".", "ilike", ".", "%">> \o query \o <<"%">>

\* Lines 58-60: the conditions, in the order of SEARCH_COLUMNS.
OrConditions(query) == [i \in 1..Len(SEARCH_COLUMNS) |-> OrCondition(SEARCH_COLUMNS[i], query)]

\* Line 63.
FilterParam(query) == <<"or", "=", "(">> \o Join(OrConditions(query), ",") \o <<")">>

\* Lines 67-70: the key and the value are pieces 0 and 1 of filter_param
\* split at '='.
SearchParams(query) ==
  LET pieces == Split(FilterParam(query), "=")
  IN DictOf(<<"select">>, <<ID_COLUMN>>, pieces[1], pieces[2])

\* Lines 97-100.
FetchParams(doc_id) ==
  DictOf(<<"select">>, <<ID_COLUMN, ",", TITLE_COLUMN, ",", CONTENT_COLUMN>>,
         <<ID_COLUMN>>, <<"eq", ".">> \o doc_id)

\* Lines 43-49: the connector's two attributes.
InitConnector ==
  [base_url |-> SUPABASE_URL \o <<"/rest/v1">>,
   headers |-> [apikey |-> SUPABASE_ANON_KEY,
                Authorization |-> <<"Bearer ">> \o SUPABASE_ANON_KEY,
                ContentType |-> <<"application/json">>]]

\* The arguments of requests.get on lines 72-77 and 102-107.
GetRequest(conn, params) ==
  [method |-> "GET",
   url |-> conn.base_url \o <<"/", SUPABASE_TABLE>>,
   headers |-> conn.headers,
   params |-> params,
   timeout |-> REQUEST_TIMEOUT]

\* ------------------------------------------------------ the HTTP exchange
\* What one requests.get call can end in.  Either it raises before any
\* response exists (no connection, timeout), or it returns a response with a
\* status code and a body.  A body is JSON text for some value, or text that
\* is no JSON at all.
ConnectionFailed == [kind |-> "ConnectionError", msg |-> <<"connection refused">>]
TimedOut == [kind |-> "Timeout", msg |-> << >>]
Response(status, body) == [kind |-> "response", status |-> status, body |-> body]
JsonText(v) == [json |-> TRUE, v |-> v]
\* response.json() on text that is no JSON raises a JSONDecodeError.  Which
\* class that is depends on the installed requests: from 2.27 on it is
\* requests.exceptions.JSONDecodeError, a RequestException; before, it is
\* json.JSONDecodeError, a ValueError.  The source pins no version, so the
\* class is part of the outcome.
NotJson(cls) == [json |-> FALSE, cls |-> cls]

\* The exception classes requests.exceptions.RequestException covers
\* (the except clauses on lines 83 and 126).
RequestExceptions == {"ConnectionError", "Timeout", "HTTPError", "requests.JSONDecodeError"}
IsRequestException(cls) == cls \in RequestExceptions

\* The classes Exception covers (lines 86 and 134): every class an
\* evaluation here can raise.
IsException(cls) ==
  cls \in RequestExceptions \cup
          {"json.JSONDecodeError", "TypeError", "KeyError", "IndexError", "AttributeError"}

\* requests.get (lines 72-77, 102-107): the response, or the exception.
HttpGet(o) ==
  IF o.kind = "response" THEN Ok(o) ELSE Raise(o.kind, o.msg)

\* response.raise_for_status() (lines 78, 108): requests raises HTTPError
\* for a status from 400 to 599 and for no other.
RaiseForStatus(resp) ==
  IF 400 <= resp.status /\ resp.status < 600
  THEN Raise("HTTPError", <<ToString(resp.status), " Error">>)
  ELSE Ok(resp)

\* response.json() (lines 80, 110).
ResponseJson(resp) ==
  IF resp.body.json THEN Ok(resp.body.v)
  ELSE Raise(resp.body.cls, <<"Expecting value">>)

\* Lines 72-80 and 102-110: get, raise_for_status, json, in that order.
GetJson(o) ==
  LET got == HttpGet(o)
  IN IF ~got.ok THEN got
     ELSE LET checked == RaiseForStatus(got.v)
          IN IF ~checked.ok THEN checked ELSE ResponseJson(checked.v)

\* ------------------------------------------------------------------ search
\* [str(doc[ID_COLUMN]) for doc in ...] over the elements, left to right;
\* the first element that raises ends the whole comprehension.
RECURSIVE IdsOf(_)
IdsOf(docs) ==
  IF docs = << >> THEN Ok(<< >>)
  ELSE LET first == GetItem(Head(docs), ID_COLUMN)
       IN IF ~first.ok THEN first
          ELSE LET rest == IdsOf(Tail(docs))
               IN IF ~rest.ok THEN rest
                  ELSE Ok(<<PyStr(str(first.v))>> \o rest.v)

\* Line 81 with the ids collected in the reverse of the response order.
ListComprehensionReversed(results) ==
  LET it == Iterate(results)
      ids == IF it.ok THEN IdsOf(it.v) ELSE it
  IN IF ~ids.ok THEN ids
     ELSE Ok([i \in 1..Len(ids.v) |-> ids.v[Len(ids.v) - i + 1]])

\* Line 81.
ListComprehension(results) ==
  LET it == Iterate(results)
  IN IF ~it.ok THEN it ELSE IdsOf(it.v)

\* Lines 72-81: the body of the try block of search_documents, from the
\* outcome of the GET on.
SearchTry(o) ==
  LET results == GetJson(o)
  IN IF ~results.ok THEN results ELSE ListComprehension(results.v)

\* Lines 83-88: the two except clauses of search_documents.
SearchExcept(r) ==
  IF r.ok THEN r
  ELSE IF IsRequestException(r.cls) THEN Ok(<< >>)
  ELSE IF IsException(r.cls) THEN Ok(<< >>)
  ELSE r

\* search_documents (lines 51-88), from the outcome of the GET on.
search_documents(o) == SearchExcept(SearchTry(o))

\* The tool search (lines 146-160): the ids under the key "ids".
search(o) ==
  LET doc_ids == search_documents(o)
  IN IF doc_ids.ok THEN Ok([ids |-> doc_ids.v]) ELSE doc_ids

\* ------------------------------------------------------------------- fetch
EmptyStr == PyStr(<< >>)

\* Lines 112-117, 128-133, 136-141: the result that carries an error.
ErrorResult(doc_id, error) ==
  [id |-> PyStr(doc_id), title |-> EmptyStr, content |-> EmptyStr, error |-> PyStr(error)]

\* Lines 119-124: the dict display evaluates its values in order: id, title,
\* content.
RowResult(results) ==
  LET doc == Index0(results)
  IN IF ~doc.ok THEN doc
     ELSE LET id == GetItem(doc.v, ID_COLUMN)
          IN IF ~id.ok THEN id
             ELSE LET title == DictGet(doc.v, TITLE_COLUMN, EmptyStr)
                      content == DictGet(doc.v, CONTENT_COLUMN, EmptyStr)
                  IN IF ~title.ok THEN title
                     ELSE IF ~content.ok THEN content
                     ELSE Ok([id |-> PyStr(str(id.v)), title |-> title.v, content |-> content.v])

\* Lines 110-124: the parsed body to the returned dict.
FetchResults(doc_id, results) ==
  IF ~Truthy(results)
  THEN Ok(ErrorResult(doc_id, <<"Document not found">>))
  ELSE RowResult(results)

\* Lines 102-124: the body of the try block of fetch_document, from the
\* outcome of the GET on.
FetchTry(doc_id, o) ==
  LET results == GetJson(o)
  IN IF ~results.ok THEN results ELSE FetchResults(doc_id, results.v)

\* Lines 126-141: the two except clauses of fetch_document.
FetchExcept(doc_id, r) ==
  IF r.ok THEN r
  ELSE IF IsRequestException(r.cls)
       THEN Ok(ErrorResult(doc_id, <<"Request failed: ">> \o r.msg))
  ELSE IF IsException(r.cls)
       THEN Ok(ErrorResult(doc_id, <<"Fetch error: ">> \o r.msg))
  ELSE r

\* fetch_document (lines 90-141), from the outcome of the GET on.
fetch_document(doc_id, o) == FetchExcept(doc_id, FetchTry(doc_id, o))

\* The tool fetch (lines 162-175): the connector's result, unchanged.
fetch(doc_id, o) == fetch_document(doc_id, o)

\* ------------------------------------------------------------------ inputs
SeqsUpTo(S, n) == UNION {[1..k -> S] : k \in 0..n}

\* The tokens a caller-supplied query is made of: an ordinary word and the
\* characters the filter syntax and str.split('=') give a meaning to.
QueryTokens == {"cats", ",", "=", "%", "(", ")", "."}
Queries == SeqsUpTo(QueryTokens, MaxLen)

\* Caller-supplied ids.
Ids == {<<"42">>, <<"7">>, << >>}

\* What an element of a JSON array body can be: rows with and without the
\* id, title and content columns, with null values, and a non-object.
Row42 == PyObj([id |-> PyStr(<<"42">>), title |-> PyStr(<<"Cats">>),
                content |-> PyStr(<<"Cats are great">>)])
Row7 == PyObj([id |-> PyNum(7), title |-> PyNone, content |-> PyStr(<<"Dogs">>)])
RowIdOnly == PyObj([id |-> PyStr(<<"7">>)])
RowNoId == PyObj([title |-> PyStr(<<"Cats">>)])
Elements == {Row42, Row7, RowIdOnly, RowNoId, PyNum(5)}

\* JSON bodies: arrays of at most MaxRows elements, and the values that are
\* no array.
ArrayBodies == {PyArr(a) : a \in SeqsUpTo(Elements, MaxRows)}
OtherBodies == {PyNone, PyNum(0), PyNum(5), PyStr(<< >>), PyStr(<<"x">>),
                PyObj(<< >>), PyObj([message |-> PyStr(<<"x">>)])}
Bodies == {JsonText(v) : v \in ArrayBodies \cup OtherBodies}
            \cup {NotJson("requests.JSONDecodeError"), NotJson("json.JSONDecodeError")}

\* Every outcome of one GET: no response at all, an error status, or a
\* status raise_for_status lets through (200, and 300 Multiple Choices,
\* which requests does not follow) with any body.
ErrorBody == JsonText(PyObj([message |-> PyStr(<<"x">>)]))
Outcomes ==
  {ConnectionFailed, TimedOut}
    \cup {Response(st, ErrorBody) : st \in {404, 500}}
    \cup {Response(st, b) : st \in {200, 300}, b \in Bodies}

\* The inputs of the concurrent specification: few, so that every
\* interleaving of NumCalls invocations is explored.
FewQueries == {<<"cats">>, <<"cats", "=">>}
FewIds == {<<"42">>}
FewOutcomes ==
  {TimedOut, Response(500, ErrorBody), Response(200, JsonText(PyArr(<< >>))),
   Response(200, JsonText(PyArr(<<Row42>>))), Response(200, JsonText(PyNone))}

\* ------------------------------------------------------------------- state
\* The invocations of search and fetch.
Procs == 1..NumCalls
Nil == [kind |-> "nil"]

VARIABLES
  pc,        \* per invocation: "idle", "built", "waiting", "done"
  op,        \* per invocation: "none", "search", "fetch"
  arg,       \* per invocation: the caller-supplied query or id
  params,    \* per invocation: the local variable params
  request,   \* per invocation: the GET it has issued
  nreq,      \* per invocation: how many GETs it has issued
  outcome,   \* per invocation: how its GET ended
  result,    \* per invocation: what it returned to its caller, or raised
  connector  \* the module-level SupabaseConnector (line 144)

vars == <<pc, op, arg, params, request, nreq, outcome, result, connector>>

Init ==
  /\ pc = [p \in Procs |-> "idle"]
  /\ op = [p \in Procs |-> "none"]
  /\ arg = [p \in Procs |-> << >>]
  /\ params = [p \in Procs |-> << >>]
  /\ request = [p \in Procs |-> Nil]
  /\ nreq = [p \in Procs |-> 0]
  /\ outcome = [p \in Procs |-> Nil]
  /\ result = [p \in Procs |-> Nil]
  /\ connector = InitConnector

\* Invocation p of a tool begins and runs up to the requests.get call: the
\* arguments are bound and the local params is built.
Call(p, name, a, ps) ==
  /\ pc[p] = "idle"
  /\ pc' = [pc EXCEPT ![p] = "built"]
  /\ op' = [op EXCEPT ![p] = name]
  /\ arg' = [arg EXCEPT ![p] = a]
  /\ params' = [params EXCEPT ![p] = ps]
  /\ request' = [request EXCEPT ![p] = Nil]
  /\ nreq' = [nreq EXCEPT ![p] = 0]
  /\ outcome' = [outcome EXCEPT ![p] = Nil]
  /\ result' = [result EXCEPT ![p] = Nil]
  /\ UNCHANGED connector

\* requests.get is called with the connector's url and headers and the
\* local params; the invocation then blocks until the call ends.
Get(p, name) ==
  /\ pc[p] = "built"
  /\ op[p] = name
  /\ pc' = [pc EXCEPT ![p] = "waiting"]
  /\ request' = [request EXCEPT ![p] = GetRequest(connector, params[p])]
  /\ nreq' = [nreq EXCEPT ![p] = nreq[p] + 1]
  /\ UNCHANGED <<op, arg, params, outcome, result, connector>>

\* The GET ends in outcome o and the invocation runs to its return.
Return(p, name, o, r) ==
  /\ pc[p] = "waiting"
  /\ op[p] = name
  /\ pc' = [pc EXCEPT ![p] = "done"]
  /\ outcome' = [outcome EXCEPT ![p] = o]
  /\ result' = [result EXCEPT ![p] = r]
  /\ UNCHANGED <<op, arg, params, request, nreq, connector>>

\* search(query) with params kept where every invocation reads it (as an
\* attribute of the shared connector would be) instead of in a local.
SearchCallSharedParams(p, query) ==
  /\ pc[p] = "idle"
  /\ pc' = [pc EXCEPT ![p] = "built"]
  /\ op' = [op EXCEPT ![p] = "search"]
  /\ arg' = [arg EXCEPT ![p] = query]
  /\ params' = [x \in Procs |-> SearchParams(query)]
  /\ request' = [request EXCEPT ![p] = Nil]
  /\ nreq' = [nreq EXCEPT ![p] = 0]
  /\ outcome' = [outcome EXCEPT ![p] = Nil]
  /\ result' = [result EXCEPT ![p] = Nil]
  /\ UNCHANGED connector

\* search(query), lines 157-158 and 56-70.
SearchCall(p, query) == Call(p, "search", query, SearchParams(query))

\* search: lines 72-77.
SearchGet(p) == Get(p, "search")

\* search with one more attempt after a GET that failed.
SearchReturnRetrying(p, o) ==
  IF ~SearchTry(o).ok /\ nreq[p] < 2
  THEN /\ pc[p] = "waiting"
       /\ op[p] = "search"
       /\ nreq' = [nreq EXCEPT ![p] = nreq[p] + 1]
       /\ outcome' = [outcome EXCEPT ![p] = o]
       /\ UNCHANGED <<pc, op, arg, params, request, result, connector>>
  ELSE Return(p, "search", o, search(o))

\* search: lines 78-88 and 159-160.
SearchReturn(p, o) == Return(p, "search", o, search(o))

\* fetch(id), lines 173-174 and 95-100.
FetchCall(p, doc_id) == Call(p, "fetch", doc_id, FetchParams(doc_id))

\* fetch: lines 102-107.
FetchGet(p) == Get(p, "fetch")

\* fetch: lines 108-141 and 175.
FetchReturn(p, o) == Return(p, "fetch", o, fetch(arg[p], o))

\* One invocation, over every query, id and outcome.
Next ==
  \/ \E query \in Queries : SearchCall(1, query)
  \/ SearchGet(1)
  \/ \E o \in Outcomes : SearchReturn(1, o)
  \/ \E doc_id \in Ids : FetchCall(1, doc_id)
  \/ FetchGet(1)
  \/ \E o \in Outcomes : FetchReturn(1, o)

Spec == Init /\ [][Next]_vars

\* NumCalls invocations, interleaved or one after another, over a few
\* inputs.
NextConcurrent ==
  \E p \in Procs :
    \/ \E query \in FewQueries : SearchCall(p, query)
    \/ SearchGet(p)
    \/ \E o \in FewOutcomes : SearchReturn(p, o)
    \/ \E doc_id \in FewIds : FetchCall(p, doc_id)
    \/ FetchGet(p)
    \/ \E o \in FewOutcomes : FetchReturn(p, o)

SpecConcurrent == Init /\ [][NextConcurrent]_vars

\* ------------------------------------------- how the backing API reads "or"
\* The backing API (PostgREST) is not part of the repository; its reading of
\* the value of the "or" parameter is taken from the filter syntax section 4.1
\* of the specification names: a parenthesised, comma-separated list of
\* <column>.<operator>.<value>, where a value ends at the next ',' or ')'
\* and '%' in an ilike value is the wildcard.
Wild == [wild |-> TRUE]
Lit(c) == [wild |-> FALSE, c |-> c]
SyntaxTokens == {",", "=", "%", "(", ")", "."}

\* The pattern an ilike value denotes.
PatternOf(value) == [i \in 1..Len(value) |-> IF value[i] = "%" THEN Wild ELSE Lit(value[i])]

\* One <column>.<operator>.<value>, or unreadable.
ReadPredicate(piece) ==
  IF /\ Len(piece) >= 4
     /\ piece[1] \notin SyntaxTokens
     /\ piece[2] = "."
     /\ piece[3] \notin SyntaxTokens
     /\ piece[4] = "."
     /\ \A i \in 5..Len(piece) : piece[i] # ")"
  THEN [ok |-> TRUE, column |-> piece[1], operator |-> piece[3],
        pattern |-> PatternOf(SubSeq(piece, 5, Len(piece)))]
  ELSE [ok |-> FALSE]

\* The whole value: the predicates it is read as, or a malformed request.
ReadFilter(value) ==
  IF Len(value) < 2 \/ value[1] # "(" \/ value[Len(value)] # ")"
  THEN [ok |-> FALSE]
  ELSE LET pieces == Split(SubSeq(value, 2, Len(value) - 1), ",")
           read == [i \in 1..Len(pieces) |-> ReadPredicate(pieces[i])]
       IN IF \E i \in 1..Len(read) : ~read[i].ok THEN [ok |-> FALSE]
          ELSE [ok |-> TRUE, predicates |-> read]

\* "column contains the literal text q, case-insensitive".
ContainsLiteral(column, q) ==
  [ok |-> TRUE, column |-> column, operator |-> "ilike",
   pattern |-> <<Wild>> \o [i \in 1..Len(q) |-> Lit(q[i])] \o <<Wild>>]

\* ---------------------------------------------- the words the claims use
Returned(p, name) == pc[p] = "done" /\ op[p] = name
Sent(p, name) == pc[p] \in {"waiting", "done"} /\ op[p] = name

\* Network failure or timeout: the call ended without a response.
NoResponse(o) == o.kind # "response"
Is2xx(o) == o.kind = "response" /\ 200 <= o.status /\ o.status <= 299
Non2xx(o) == o.kind = "response" /\ ~(200 <= o.status /\ o.status <= 299)
\* Request-level failure: network failure, timeout, non-2xx status.
RequestLevel(o) == NoResponse(o) \/ Non2xx(o)

IsRow(v) == v.t = "obj" /\ ID_COLUMN \in DOMAIN v.o
\* A 2xx response whose body is a JSON array.
Array2xx(o) == Is2xx(o) /\ o.body.json /\ o.body.v.t = "arr"
\* ... of objects that all carry the id column.
RowArray2xx(o) == Array2xx(o) /\ \A i \in 1..Len(o.body.v.a) : IsRow(o.body.v.a[i])
\* ... with at least one element, the first of which is a row.
FirstRow2xx(o) == Array2xx(o) /\ o.body.v.a # << >> /\ IsRow(o.body.v.a[1])
\* ... with no element.
Empty2xx(o) == Array2xx(o) /\ o.body.v.a = << >>

IsStr(v) == v.t = "str"
HasError(r) == r.ok /\ "error" \in DOMAIN r.v
StartsWith(s, prefix) == Len(s) >= 1 /\ s[1] = prefix

\* ------------------------------------------------------------------ claims

\* C1: whenever search(q) has returned, it has not raised; after a network
\* failure, a timeout, a non-2xx status or a 2xx body that is not a JSON
\* array of objects carrying the id column it has returned exactly
\* {ids: []}, and in every other case {ids: <sequence of strings>}.
SearchFailSoft ==
  \A p \in Procs : Returned(p, "search") =>
    /\ result[p].ok
    /\ DOMAIN result[p].v = {"ids"}
    /\ \A i \in 1..Len(result[p].v.ids) : IsStr(result[p].v.ids[i])
    /\ (RequestLevel(outcome[p]) \/ (Is2xx(outcome[p]) /\ ~RowArray2xx(outcome[p])))
         => result[p].v = [ids |-> << >>]

\* C2: whenever fetch(i) has returned, it has not raised; after a network
\* failure, a timeout, a non-2xx status or a 2xx body that is no JSON array
\* or whose first element is no row, it has returned id = i, title = "",
\* content = "" and a non-empty error; and whenever error is present, title
\* and content are both "".
FetchFailSoft ==
  \A p \in Procs : Returned(p, "fetch") =>
    /\ result[p].ok
    /\ (RequestLevel(outcome[p])
          \/ (Is2xx(outcome[p]) /\ ~Empty2xx(outcome[p]) /\ ~FirstRow2xx(outcome[p])))
         => /\ DOMAIN result[p].v = {"id", "title", "content", "error"}
            /\ result[p].v.id = PyStr(arg[p])
            /\ IsStr(result[p].v.error) /\ result[p].v.error.s # << >>
    /\ HasError(result[p]) => result[p].v.title = EmptyStr /\ result[p].v.content = EmptyStr

\* C3: the filter search(q) has sent is read by the backing API as exactly
\* one "contains the literal text q" predicate per configured search
\* column, in order: nothing of q is read as a column, an operator, a
\* wildcard or a further predicate.  Stated for the queries without '=',
\* whose filter is sent whole (C10 is about the others).
FilterReadLiterally ==
  \A p \in Procs : (Sent(p, "search") /\ \A i \in 1..Len(arg[p]) : arg[p][i] # "=") =>
    /\ <<"or">> \in DOMAIN request[p].params
    /\ ReadFilter(request[p].params[<<"or">>]) =
         [ok |-> TRUE,
          predicates |-> [i \in 1..Len(SEARCH_COLUMNS) |->
                            ContainsLiteral(SEARCH_COLUMNS[i], arg[p])]]

\* row[column] ?? "": the value, or "" when it is missing or null.
OrEmpty(row, column) ==
  IF column \in DOMAIN row.o /\ row.o[column] # PyNone THEN row.o[column] ELSE EmptyStr

\* C4: after a 2xx JSON array with at least one row, fetch(i) has returned
\* the first row only: id is the string form of its id, title is its title
\* or "" when that is missing or null, content likewise, and there is no
\* error key.
FetchFirstRow ==
  \A p \in Procs : (Returned(p, "fetch") /\ FirstRow2xx(outcome[p])) =>
    LET row == outcome[p].body.v.a[1]
    IN result[p] = Ok([id |-> PyStr(str(row.o[ID_COLUMN])),
                       title |-> OrEmpty(row, TITLE_COLUMN),
                       content |-> OrEmpty(row, CONTENT_COLUMN)])

\* The not-found value for the caller-supplied id i.
NotFound(i) ==
  [id |-> PyStr(i), title |-> EmptyStr, content |-> EmptyStr,
   error |-> PyStr(<<"Document not found">>)]

\* C5: after a 2xx empty JSON array fetch(i) has returned exactly
\* {id: i, title: "", content: "", error: "Document not found"}, and after
\* a transport error (network failure, timeout, non-2xx status) it has
\* returned something else.
FetchNotFound ==
  \A p \in Procs : Returned(p, "fetch") =>
    /\ Empty2xx(outcome[p]) => result[p] = Ok(NotFound(arg[p]))
    /\ RequestLevel(outcome[p]) => result[p] # Ok(NotFound(arg[p]))

\* C6: after a 2xx JSON array of rows, search(q) has returned under ids the
\* string form of every row's id, as many as there are rows and in the
\* order of the array.
SearchIdsInOrder ==
  \A p \in Procs : (Returned(p, "search") /\ RowArray2xx(outcome[p])) =>
    LET rows == outcome[p].body.v.a
    IN /\ result[p].ok
       /\ Len(result[p].v.ids) = Len(rows)
       /\ \A i \in 1..Len(rows) : result[p].v.ids[i] = PyStr(str(rows[i].o[ID_COLUMN]))

\* C6, witness: two rows, one with a numeric id, returned as strings in the
\* order of the array.
SearchIdsInOrderWitness ==
  /\ Returned(1, "search")
  /\ outcome[1] = Response(200, JsonText(PyArr(<<Row7, Row42>>)))
  /\ result[1] = Ok([ids |-> <<PyStr(<<"7">>), PyStr(<<"42">>)>>])

\* C7: in a fetch(i) that has returned an error, the error starts with
\* "Request failed: " exactly when the call failed at request level
\* (network failure, timeout, non-2xx status), and with "Fetch error: "
\* exactly when a 2xx response had a body that is no JSON, no array, or an
\* array whose first element is no row.
ErrorClassDistinguished ==
  \A p \in Procs : (Returned(p, "fetch") /\ HasError(result[p])) =>
    /\ StartsWith(result[p].v.error.s, "Request failed: ") <=> RequestLevel(outcome[p])
    /\ StartsWith(result[p].v.error.s, "Fetch error: ")
         <=> (Is2xx(outcome[p]) /\ ~Empty2xx(outcome[p]) /\ ~FirstRow2xx(outcome[p]))

Independent ==
  /\ connector = InitConnector
  /\ \A p \in Procs :
       /\ Sent(p, "search") => request[p] = GetRequest(InitConnector, SearchParams(arg[p]))
       /\ Sent(p, "fetch") => request[p] = GetRequest(InitConnector, FetchParams(arg[p]))
       /\ Returned(p, "search") => result[p] = search(outcome[p])
       /\ Returned(p, "fetch") => result[p] = fetch(arg[p], outcome[p])

\* C9, witness: a fetch has returned while a search with another argument
\* is between building its params and hearing from its GET.
IndependentWitness ==
  \E p, q \in Procs :
    /\ p # q
    /\ Sent(p, "search") /\ pc[p] = "waiting" /\ arg[p] = <<"cats", "=">>
    /\ Returned(q, "fetch") /\ arg[q] = <<"42">>
    /\ result[q].ok /\ ~HasError(result[q])

\* The complete parenthesised filter expression for q.
WholeFilter(q) == <<"(">> \o Join(OrConditions(q), ",") \o <<")">>

\* C10: the request search(q) has sent carries exactly the two parameters
\* select = the id column and or = '(' + the '<column>.ilike.%q%'
\* predicates of all configured search columns, comma-joined in configured
\* order + ')'.
TwoParameters ==
  \A p \in Procs : Sent(p, "search") =>
    /\ DOMAIN request[p].params = {<<"select">>, <<"or">>}
    /\ request[p].params[<<"select">>] = <<ID_COLUMN>>
    /\ request[p].params[<<"or">>] = WholeFilter(arg[p])

=============================================================================
